---- MODULE Spec2Model ----
(***************************************************************************)
(* State-machine model of the DREM trackside tools:                        *)
(*   - the Timekeeper page (website/src/admin/timekeeper/timekeeper.js):   *)
(*     lap capture, undo, lap validity, fastest lap, race/session control; *)
(*   - the car-upload poller (class CarModelUploadModal in                 *)
(*     website/src/home.js): submit, interval tick, status query, dismiss. *)
(* Every React event handler is one atomic action: the handler body, the   *)
(* re-render it causes and the effects of that render (the fastest-lap     *)
(* effect) happen in one step.  A promise continuation after an `await`    *)
(* is a separate action, taken when the response arrives.                  *)
(***************************************************************************)
EXTENDS Integers, Sequences, FiniteSets, TLC

VARIABLES
  \* ---- Timekeeper (timekeeper.js) ----
  racerSelecorModalIsVisible, \* useState(true), line 17
  endSessionModalIsVisible,   \* useState(false), line 18
  timerIsReset,               \* useState(false), line 19
  username,                   \* useState(), line 21; Undefined when not set
  laps,                       \* useState([]), line 30
  fastestLap,                 \* useState([]), line 31
  carResetCounter,            \* useCounter(0), lines 38-43
  timeInMilliseconds,         \* useTimer(8), lines 45-46
  lapTimerIsRunning,          \* useTimer(8), lines 45-46
  timeLeft,                   \* CountDownTimer: remaining countdown ticks
  renderError,                \* "none", or the exception a render threw
  trail,                      \* history: the operation just performed, for the
                              \* properties that speak of two steps in a row
  \* ---- Upload poller (home.js, class CarModelUploadModal) ----
  open,                       \* state.open
  resultOpen,                 \* state.resultOpen
  result,                     \* state.result
  CurrentInstanceId,          \* state.CurrentInstanceId
  CommandId,                  \* state.CommandId
  uploadStatus,               \* state.uploadStatus
  count,                      \* state.count
  interval,                   \* this.interval: the handle last returned by setInterval
  timers,                     \* handles of the intervals that are still active
  handles,                    \* number of setInterval handles handed out so far
  pendingUploads,             \* upload POSTs awaiting their response
  pendingStatus,              \* status POSTs awaiting their response
  unmounted,                  \* componentWillUnmount has run
  unhandledRejection,         \* a promise nobody handles has been rejected
  script                      \* history: how far the run follows the reference exchange

tkVars == <<racerSelecorModalIsVisible, endSessionModalIsVisible, timerIsReset,
            username, laps, fastestLap, carResetCounter, timeInMilliseconds,
            lapTimerIsRunning, timeLeft, renderError, trail>>

upVars == <<open, resultOpen, result, CurrentInstanceId, CommandId, uploadStatus,
            count, interval, timers, handles, pendingUploads, pendingStatus,
            unmounted, unhandledRejection, script>>

vars == <<tkVars, upVars>>

----------------------------------------------------------------------------
\* Bounds of the model.
MaxLaps == 3        \* laps captured in one session
MaxTicks == 3       \* stopwatch ticks accounted for in one session
MaxResets == 1      \* car resets accounted for in one session
RaceTime == 1       \* countdown ticks of selectedEvent.raceTimeInSec
MaxUploads == 2     \* uploads submitted
MaxCount == 4       \* interval ticks counted
MaxPending == 2     \* status requests awaiting their response at one time

\* Program constants.
TimerResolution == 8    \* useTimer(8)
NoId == -1              \* currentLap.id: null

Undefined == "undefined"
Racers == {"racerA"}     \* the racers offered by the RacerSelectionModal
Cars == {"carA"}         \* the online cars listed in the "Select a Car" modal
Statuses == {"InProgress", "Success", "Failed"}
NoHandle == 0           \* this.interval before the first setInterval
NoCommandId == ""       \* the body of an upload response without a command id

\* useState({ id: null, time: 0, resets: 0, crashes: 0, isValid: false });
\* every SetCurrentLap call stores this same value again.
currentLap == [id |-> NoId, time |-> 0, resets |-> 0, crashes |-> 0, isValid |-> FALSE]

----------------------------------------------------------------------------
\* Helpers.

\* The number that is not a number: what arithmetic on undefined gives.
NaN == -1

\* An element that is undefined (the result of a find that matches nothing).
undefinedElement == [undefined |-> TRUE]

\* o.time, as a number: undefined behaves as NaN in Math.min and in a sum.
TimeOf(o) == IF "time" \in DOMAIN o THEN o.time ELSE NaN

\* a + b
Plus(a, b) == IF a = NaN \/ b = NaN THEN NaN ELSE a + b

RECURSIVE MinOf(_)
\* Math.min.apply(Math, times) for a non-empty sequence: NaN when one is NaN.
MinOf(ts) ==
  IF Len(ts) = 1 THEN ts[1]
  ELSE LET m == MinOf(Tail(ts))
       IN IF ts[1] = NaN \/ m = NaN THEN NaN
          ELSE IF ts[1] < m THEN ts[1] ELSE m

\* validLaps.map((o) => o.time)
TimesOf(ls) == [i \in 1..Len(ls) |-> TimeOf(ls[i])]

\* Array.prototype.find: the first element that satisfies the test.
FirstWithTime(ls, t) ==
  ls[CHOOSE i \in 1..Len(ls) : ls[i].time = t /\ \A j \in 1..(i - 1) : ls[j].time # t]

RECURSIVE SumTimes(_)
SumTimes(ls) ==
  IF ls = << >> THEN 0
  ELSE (IF TimeOf(ls[1]) = NaN THEN 0 ELSE ls[1].time) + SumTimes(Tail(ls))

\* Stopwatch time accounted for in the session: the laps plus the running lap.
SessionTime ==
  SumTimes(laps) + (IF timeInMilliseconds = NaN THEN 0 ELSE timeInMilliseconds)

RECURSIVE SumResets(_)
SumResets(ls) ==
  IF ls = << >> THEN 0
  ELSE (IF "resets" \in DOMAIN ls[1] THEN ls[1].resets ELSE 0) + SumResets(Tail(ls))

\* Car resets accounted for in the session: the laps plus the running lap.
SessionResets == SumResets(laps) + carResetCounter

----------------------------------------------------------------------------
\* The hooks and the child component the Timekeeper uses.  Their files
\* (hooks/useCounter, hooks/useTimer, ./count-down-timer) are not part of the
\* sources at hand; they follow sections 4.1-4.3 of the specification.

\* useTimer: start() resumes, pause() freezes, reset(toMs = 0) sets the value.
startLapTimer == lapTimerIsRunning' = TRUE

pauseLapTimer == lapTimerIsRunning' = FALSE

resetLapTimer(toMs) == timeInMilliseconds' = toMs

\* useCounter: increment(), decrement() (not below zero), reset().
incrementCarResetCounter == carResetCounter' = carResetCounter + 1

\* A decrement without the floor at zero.
decrementCarResetCounter_noFloor ==
  carResetCounter' = carResetCounter - 1

decrementCarResetCounter ==
  carResetCounter' = IF carResetCounter > 0 THEN carResetCounter - 1 ELSE 0

resetCarResetCounter == carResetCounter' = 0

\* CountDownTimer with isReset = true: re-armed at the full duration.
CountDownRearm == timeLeft' = RaceTime

----------------------------------------------------------------------------
\* Timekeeper: derived state.

\* Mutant of FindFastestLap: the filter on isValid is left out.
FindFastestLap_noValidFilter(ls) ==
  IF Len(ls) # 0
  THEN LET res == MinOf(TimesOf(ls))
           obj == FirstWithTime(ls, res)
       IN <<obj>>
  ELSE << >>

\* The "Find the fastest lap" effect, run after every render that changed laps.
FindFastestLap(ls) ==
  IF Len(ls) # 0
  THEN LET validLaps == SelectSeq(ls, LAMBDA o : o.isValid = TRUE)
       IN IF Len(validLaps) # 0
          THEN LET res == MinOf(TimesOf(validLaps))
                   obj == IF res = NaN
                          THEN undefinedElement
                          ELSE FirstWithTime(validLaps, res)
               IN <<obj>>
          ELSE << >>
  ELSE << >>

\* SetLaps(value): the new lap sequence and, after the render, the effect above.
SetLaps(newLaps) ==
  /\ laps' = newLaps
  /\ fastestLap' = FindFastestLap(newLaps)

----------------------------------------------------------------------------
\* Timekeeper: the handlers, as written (no guard that the code does not have).

endSessionHandler ==
  /\ endSessionModalIsVisible' = TRUE
  /\ UNCHANGED <<racerSelecorModalIsVisible, timerIsReset, username, laps, fastestLap,
                 carResetCounter, timeInMilliseconds, lapTimerIsRunning, timeLeft,
                 renderError>>

\* Mutant of captureNewLapHandler: lap ids counted from one.
captureNewLapHandler_idFromOne(lapIsValid) ==
  LET lapId == Len(laps) + 1
      currentLapStats == [currentLap EXCEPT !.resets = carResetCounter,
                                            !.id = lapId,
                                            !.time = timeInMilliseconds,
                                            !.isValid = lapIsValid]
  IN /\ SetLaps(Append(laps, currentLapStats))
     /\ resetCarResetCounter
     /\ resetLapTimer(0)
     /\ UNCHANGED <<racerSelecorModalIsVisible, endSessionModalIsVisible, timerIsReset,
                    username, lapTimerIsRunning, timeLeft, renderError>>

\* A captureNewLapHandler that records the lap without its car resets.
captureNewLapHandler_noResets(lapIsValid) ==
  LET lapId == Len(laps)
      currentLapStats == [currentLap EXCEPT !.id = lapId,
                                            !.time = timeInMilliseconds,
                                            !.isValid = lapIsValid]
  IN /\ SetLaps(Append(laps, currentLapStats))
     /\ resetCarResetCounter
     /\ resetLapTimer(0)
     /\ UNCHANGED <<racerSelecorModalIsVisible, endSessionModalIsVisible, timerIsReset,
                    username, lapTimerIsRunning, timeLeft, renderError>>

captureNewLapHandler(lapIsValid) ==
  LET lapId == Len(laps)
      currentLapStats == [currentLap EXCEPT !.resets = carResetCounter,
                                            !.id = lapId,
                                            !.time = timeInMilliseconds,
                                            !.isValid = lapIsValid]
  IN /\ SetLaps(Append(laps, currentLapStats))
     /\ resetCarResetCounter
     /\ resetLapTimer(0)
     /\ UNCHANGED <<racerSelecorModalIsVisible, endSessionModalIsVisible, timerIsReset,
                    username, lapTimerIsRunning, timeLeft, renderError>>

resetRace ==
  /\ username' = Undefined
  /\ timerIsReset' = TRUE
  /\ CountDownRearm
  /\ pauseLapTimer
  /\ resetLapTimer(0)
  /\ SetLaps(<< >>)
  /\ endSessionModalIsVisible' = FALSE
  /\ racerSelecorModalIsVisible' = TRUE
  /\ UNCHANGED <<carResetCounter, renderError>>

submitRaceHandler == resetRace

abandonRaceHandler == resetRace

\* A raceIsOverHandler that also drops the laps of the session.
raceIsOverHandler_clearsLaps ==
  /\ pauseLapTimer
  /\ SetLaps(<< >>)
  /\ UNCHANGED <<racerSelecorModalIsVisible, endSessionModalIsVisible, timerIsReset,
                 username, carResetCounter, timeInMilliseconds, renderError>>

\* Called by the CountDownTimer (onExpire), which keeps its own time.
raceIsOverHandler ==
  /\ pauseLapTimer
  /\ UNCHANGED <<racerSelecorModalIsVisible, endSessionModalIsVisible, timerIsReset,
                 username, laps, fastestLap, carResetCounter, timeInMilliseconds,
                 renderError>>

raceStartedHandler(u) ==
  /\ username' = u
  /\ racerSelecorModalIsVisible' = FALSE
  /\ timerIsReset' = FALSE
  /\ UNCHANGED <<endSessionModalIsVisible, laps, fastestLap, carResetCounter,
                 timeInMilliseconds, lapTimerIsRunning, timeLeft, renderError>>

\* An actionHandler whose change is not followed by the fastest-lap effect.
actionHandler_noRecompute(id) ==
  LET updatedLap == [laps[id + 1] EXCEPT !.isValid = ~laps[id + 1].isValid]
      lapsCopy == [laps EXCEPT ![id + 1] = updatedLap]
  IN /\ laps' = lapsCopy
     /\ UNCHANGED fastestLap
     /\ UNCHANGED <<racerSelecorModalIsVisible, endSessionModalIsVisible, timerIsReset,
                    username, carResetCounter, timeInMilliseconds, lapTimerIsRunning,
                    timeLeft, renderError>>

\* An actionHandler that marks the lap valid instead of flipping isValid.
actionHandler_setsValid(id) ==
  LET updatedLap == [laps[id + 1] EXCEPT !.isValid = TRUE]
      lapsCopy == [laps EXCEPT ![id + 1] = updatedLap]
  IN /\ SetLaps(lapsCopy)
     /\ UNCHANGED <<racerSelecorModalIsVisible, endSessionModalIsVisible, timerIsReset,
                    username, carResetCounter, timeInMilliseconds, lapTimerIsRunning,
                    timeLeft, renderError>>

\* actionHandler(id) for 0 <= id <= laps.length.
\* For id = laps.length, laps[id] is undefined: the copy {...undefined} is {},
\* !undefined is true, and lapsCopy[id] = updatedLap adds the element.
actionHandler(id) ==
  LET updatedLap == IF id < Len(laps)
                    THEN [laps[id + 1] EXCEPT !.isValid = ~laps[id + 1].isValid]
                    ELSE [isValid |-> TRUE]
      lapsCopy == IF id < Len(laps)
                  THEN [laps EXCEPT ![id + 1] = updatedLap]
                  ELSE Append(laps, updatedLap)
  IN /\ SetLaps(lapsCopy)
     /\ UNCHANGED <<racerSelecorModalIsVisible, endSessionModalIsVisible, timerIsReset,
                    username, carResetCounter, timeInMilliseconds, lapTimerIsRunning,
                    timeLeft, renderError>>

\* A raceHandler that starts and pauses without looking at username.
raceHandler_noRacerCheck ==
  /\ IF lapTimerIsRunning THEN pauseLapTimer ELSE startLapTimer
  /\ UNCHANGED <<racerSelecorModalIsVisible, endSessionModalIsVisible, timerIsReset,
                 username, laps, fastestLap, carResetCounter, timeInMilliseconds,
                 timeLeft, renderError>>

\* A raceHandler that refuses to start once the race clock has run out.
raceHandler_latchesExpiry ==
  /\ IF username = Undefined
     THEN /\ racerSelecorModalIsVisible' = TRUE
          /\ pauseLapTimer
     ELSE IF lapTimerIsRunning \/ timeLeft = 0
     THEN /\ pauseLapTimer
          /\ UNCHANGED racerSelecorModalIsVisible
     ELSE /\ startLapTimer
          /\ UNCHANGED racerSelecorModalIsVisible
  /\ UNCHANGED <<endSessionModalIsVisible, timerIsReset, username, laps, fastestLap,
                 carResetCounter, timeInMilliseconds, timeLeft, renderError>>

raceHandler ==
  /\ IF username = Undefined
     THEN /\ racerSelecorModalIsVisible' = TRUE
          /\ pauseLapTimer
     ELSE IF lapTimerIsRunning
     THEN /\ pauseLapTimer
          /\ UNCHANGED racerSelecorModalIsVisible
     ELSE /\ startLapTimer
          /\ UNCHANGED racerSelecorModalIsVisible
  /\ UNCHANGED <<endSessionModalIsVisible, timerIsReset, username, laps, fastestLap,
                 carResetCounter, timeInMilliseconds, timeLeft, renderError>>

endSessionModalDismissed ==
  /\ endSessionModalIsVisible' = FALSE
  /\ UNCHANGED <<racerSelecorModalIsVisible, timerIsReset, username, laps, fastestLap,
                 carResetCounter, timeInMilliseconds, lapTimerIsRunning, timeLeft,
                 renderError>>

racerSelectionModalDismissedHandler ==
  /\ racerSelecorModalIsVisible' = FALSE
  /\ UNCHANGED <<endSessionModalIsVisible, timerIsReset, username, laps, fastestLap,
                 carResetCounter, timeInMilliseconds, lapTimerIsRunning, timeLeft,
                 renderError>>

\* Mutant of undoFalseFinishHandler: the stopwatch is restored to the removed
\* lap's time alone, without the time elapsed since.
undoFalseFinishHandler_lapTimeOnly ==
  IF laps = << >>
  THEN /\ renderError' = "TypeError"
       /\ UNCHANGED <<racerSelecorModalIsVisible, endSessionModalIsVisible, timerIsReset,
                      username, laps, fastestLap, carResetCounter, timeInMilliseconds,
                      lapTimerIsRunning, timeLeft>>
  ELSE LET updatedLaps == SubSeq(laps, 1, Len(laps) - 1)
           lastLap == laps[Len(laps)]
       IN /\ resetLapTimer(lastLap.time)
          /\ SetLaps(updatedLaps)
          /\ UNCHANGED <<racerSelecorModalIsVisible, endSessionModalIsVisible,
                         timerIsReset, username, carResetCounter, lapTimerIsRunning,
                         timeLeft, renderError>>

\* The updater pops the last lap and reads lastLap.time.  On an empty array
\* pop() returns undefined and reading .time throws a TypeError inside the
\* updater, before resetLapTimer is called and before anything is returned:
\* the render fails and no state is changed.
\* An undo that also gives the removed lap's car resets back to the counter.
undoFalseFinishHandler_restoresResets ==
  IF laps = << >>
  THEN /\ renderError' = "TypeError"
       /\ UNCHANGED <<racerSelecorModalIsVisible, endSessionModalIsVisible, timerIsReset,
                      username, laps, fastestLap, carResetCounter, timeInMilliseconds,
                      lapTimerIsRunning, timeLeft>>
  ELSE LET updatedLaps == SubSeq(laps, 1, Len(laps) - 1)
           lastLap == laps[Len(laps)]
       IN /\ resetLapTimer(Plus(timeInMilliseconds, TimeOf(lastLap)))
          /\ carResetCounter' = carResetCounter + lastLap.resets
          /\ SetLaps(updatedLaps)
          /\ UNCHANGED <<racerSelecorModalIsVisible, endSessionModalIsVisible,
                         timerIsReset, username, lapTimerIsRunning, timeLeft,
                         renderError>>

undoFalseFinishHandler ==
  IF laps = << >>
  THEN /\ renderError' = "TypeError"
       /\ UNCHANGED <<racerSelecorModalIsVisible, endSessionModalIsVisible, timerIsReset,
                      username, laps, fastestLap, carResetCounter, timeInMilliseconds,
                      lapTimerIsRunning, timeLeft>>
  ELSE LET updatedLaps == SubSeq(laps, 1, Len(laps) - 1)
           lastLap == laps[Len(laps)]
       IN /\ resetLapTimer(Plus(timeInMilliseconds, TimeOf(lastLap)))
          /\ SetLaps(updatedLaps)
          /\ UNCHANGED <<racerSelecorModalIsVisible, endSessionModalIsVisible,
                         timerIsReset, username, carResetCounter, lapTimerIsRunning,
                         timeLeft, renderError>>

----------------------------------------------------------------------------
\* Timekeeper: the operator's controls and the two clocks.

Racing == username # Undefined /\ lapTimerIsRunning

\* A visible modal covers the page: the page buttons cannot be clicked.
NoModal == ~racerSelecorModalIsVisible /\ ~endSessionModalIsVisible

\* Nothing is rendered any more once a render has thrown.
Mounted == renderError = "none"

NoTrail ==
  [op |-> "none", len |-> 0, time |-> 0, elapsed |-> 0, resets |-> 0, before |-> << >>]

\* RacerSelectionModal onRacerSelected
RacerSelected(u) ==
  /\ Mounted /\ racerSelecorModalIsVisible
  /\ raceStartedHandler(u)
  /\ trail' = NoTrail
  /\ UNCHANGED upVars

\* RacerSelectionModal onDismiss
RacerSelectionDismissed ==
  /\ Mounted /\ racerSelecorModalIsVisible
  /\ racerSelectionModalDismissedHandler
  /\ trail' = NoTrail
  /\ UNCHANGED upVars

\* <Button onClick={() => raceHandler()}> Start Race / Pause Race
StartPauseButton ==
  /\ Mounted /\ NoModal
  /\ raceHandler
  /\ trail' = IF username = Undefined THEN [NoTrail EXCEPT !.op = "norider"] ELSE NoTrail
  /\ UNCHANGED upVars

\* Capture Lap (lapIsValid = TRUE) and DNF (FALSE); disabled={!lapTimerIsRunning}
CaptureLapButton(lapIsValid) ==
  /\ Mounted /\ NoModal
  /\ lapTimerIsRunning
  /\ Len(laps) < MaxLaps
  /\ captureNewLapHandler(lapIsValid)
  /\ trail' = [NoTrail EXCEPT !.op = "capture", !.len = Len(laps),
                               !.time = timeInMilliseconds,
                               !.resets = carResetCounter]
  /\ UNCHANGED upVars

\* Car Reset; disabled={!lapTimerIsRunning}
CarResetButton ==
  /\ Mounted /\ NoModal
  /\ lapTimerIsRunning
  /\ SessionResets < MaxResets
  /\ incrementCarResetCounter
  /\ trail' = NoTrail
  /\ UNCHANGED <<racerSelecorModalIsVisible, endSessionModalIsVisible, timerIsReset,
                 username, laps, fastestLap, timeInMilliseconds, lapTimerIsRunning,
                 timeLeft, renderError>>
  /\ UNCHANGED upVars

\* -1; disabled={!lapTimerIsRunning}
MinusOneButton ==
  /\ Mounted /\ NoModal
  /\ lapTimerIsRunning
  /\ decrementCarResetCounter
  /\ trail' = [NoTrail EXCEPT !.op = "minus", !.len = carResetCounter]
  /\ UNCHANGED <<racerSelecorModalIsVisible, endSessionModalIsVisible, timerIsReset,
                 username, laps, fastestLap, timeInMilliseconds, lapTimerIsRunning,
                 timeLeft, renderError>>
  /\ UNCHANGED upVars

\* Undo false finish; disabled={!lapTimerIsRunning}
UndoButton ==
  /\ Mounted /\ NoModal
  /\ lapTimerIsRunning
  /\ undoFalseFinishHandler
  /\ trail' = IF trail.op = "capture" THEN [trail EXCEPT !.op = "undo"] ELSE NoTrail
  /\ UNCHANGED upVars

\* End Race
EndRaceButton ==
  /\ Mounted /\ NoModal
  /\ endSessionHandler
  /\ trail' = NoTrail
  /\ UNCHANGED upVars

\* EndSessionModal onSubmitRace
SubmitRace ==
  /\ Mounted /\ endSessionModalIsVisible
  /\ submitRaceHandler
  /\ trail' = NoTrail
  /\ UNCHANGED upVars

\* EndSessionModal onAbandonRace
AbandonRace ==
  /\ Mounted /\ endSessionModalIsVisible
  /\ abandonRaceHandler
  /\ trail' = NoTrail
  /\ UNCHANGED upVars

\* EndSessionModal onDismiss
EndSessionDismissed ==
  /\ Mounted /\ endSessionModalIsVisible
  /\ endSessionModalDismissed
  /\ trail' = NoTrail
  /\ UNCHANGED upVars

\* LapTable onAction / EndSessionModal onAction, for a row that is displayed.
ToggleLap(id) ==
  /\ Mounted /\ ~racerSelecorModalIsVisible
  /\ id \in 0..(Len(laps) - 1)
  /\ actionHandler(id)
  /\ trail' = IF fastestLap = <<laps[id + 1]>>
              THEN [NoTrail EXCEPT !.op = "unfastest", !.len = id, !.before = laps]
              ELSE IF trail.op = "unfastest" /\ trail.len = id
              THEN [trail EXCEPT !.op = "refastest"]
              ELSE NoTrail
  /\ UNCHANGED upVars

\* The stopwatch interval of useTimer: one resolution step while running.
LapTimerTick ==
  /\ Mounted /\ lapTimerIsRunning
  /\ SessionTime < MaxTicks * TimerResolution
  /\ timeInMilliseconds' = Plus(timeInMilliseconds, TimerResolution)
  /\ trail' = IF trail.op = "capture"
              THEN [trail EXCEPT !.elapsed = @ + TimerResolution]
              ELSE NoTrail
  /\ UNCHANGED <<racerSelecorModalIsVisible, endSessionModalIsVisible, timerIsReset,
                 username, laps, fastestLap, carResetCounter, lapTimerIsRunning,
                 timeLeft, renderError>>
  /\ UNCHANGED upVars

\* A race clock that calls onExpire on every cycle it is evaluated at zero.
CountDownTick_refires ==
  /\ Mounted /\ lapTimerIsRunning
  /\ timeLeft' = IF timeLeft > 0 THEN timeLeft - 1 ELSE 0
  /\ IF timeLeft <= 1
     THEN raceIsOverHandler /\ trail' = NoTrail
     ELSE UNCHANGED <<racerSelecorModalIsVisible, endSessionModalIsVisible,
                      timerIsReset, username, laps, fastestLap, carResetCounter,
                      timeInMilliseconds, lapTimerIsRunning, renderError, trail>>
  /\ UNCHANGED upVars

\* The race clock: counts down while isRunning; at zero it calls onExpire once.
CountDownTick ==
  /\ Mounted /\ lapTimerIsRunning
  /\ timeLeft > 0
  /\ timeLeft' = timeLeft - 1
  /\ IF timeLeft = 1
     THEN raceIsOverHandler /\ trail' = NoTrail
     ELSE UNCHANGED <<racerSelecorModalIsVisible, endSessionModalIsVisible,
                      timerIsReset, username, laps, fastestLap, carResetCounter,
                      timeInMilliseconds, lapTimerIsRunning, renderError, trail>>
  /\ UNCHANGED upVars

\* The same handlers called while their control is disabled (not Racing):
\* the handlers themselves contain no check of the race state.
CaptureLapCall(lapIsValid) ==
  /\ Mounted /\ ~Racing
  /\ Len(laps) < MaxLaps
  /\ captureNewLapHandler(lapIsValid)
  /\ trail' = NoTrail
  /\ UNCHANGED upVars

CarResetCall ==
  /\ Mounted /\ ~Racing
  /\ SessionResets < MaxResets
  /\ incrementCarResetCounter
  /\ trail' = NoTrail
  /\ UNCHANGED <<racerSelecorModalIsVisible, endSessionModalIsVisible, timerIsReset,
                 username, laps, fastestLap, timeInMilliseconds, lapTimerIsRunning,
                 timeLeft, renderError>>
  /\ UNCHANGED upVars

\* actionHandler called with the id of a lap that is no longer there: the
\* index one past the last lap, which is the id of the lap an undo removed
\* and the id 0 of the first lap after a session reset.
ToggleLapCall(id) ==
  /\ Mounted
  /\ id = Len(laps)
  /\ Len(laps) < MaxLaps
  /\ actionHandler(id)
  /\ trail' = NoTrail
  /\ UNCHANGED upVars

MinusOneCall ==
  /\ Mounted /\ ~Racing
  /\ decrementCarResetCounter
  /\ trail' = NoTrail
  /\ UNCHANGED <<racerSelecorModalIsVisible, endSessionModalIsVisible, timerIsReset,
                 username, laps, fastestLap, timeInMilliseconds, lapTimerIsRunning,
                 timeLeft, renderError>>
  /\ UNCHANGED upVars

\* captureNewLapHandler and actionHandler(id) called from the same render, with
\* no render between them: both read the same laps.  The capture queues the
\* updater prev => [...prev, lap], the toggle queues the value lapsCopy made from
\* the laps of that render; React applies the queue in the order of the calls.
CaptureAndToggleCall(lapIsValid, id, captureFirst) ==
  LET lapId == Len(laps)
      currentLapStats == [currentLap EXCEPT !.resets = carResetCounter,
                                            !.id = lapId,
                                            !.time = timeInMilliseconds,
                                            !.isValid = lapIsValid]
      updatedLap == [laps[id + 1] EXCEPT !.isValid = ~laps[id + 1].isValid]
      lapsCopy == [laps EXCEPT ![id + 1] = updatedLap]
  IN /\ Mounted /\ NoModal
     /\ lapTimerIsRunning
     /\ Len(laps) < MaxLaps
     /\ id \in 0..(Len(laps) - 1)
     /\ SetLaps(IF captureFirst THEN lapsCopy ELSE Append(lapsCopy, currentLapStats))
     /\ resetCarResetCounter
     /\ resetLapTimer(0)
     /\ trail' = NoTrail
     /\ UNCHANGED <<racerSelecorModalIsVisible, endSessionModalIsVisible, timerIsReset,
                    username, lapTimerIsRunning, timeLeft, renderError>>
     /\ UNCHANGED upVars

----------------------------------------------------------------------------
\* Upload poller (home.js, class CarModelUploadModal).

\* The command id the remote call answers the n-th upload with.
CommandIdOf(n) == "cmd" \o ToString(n)

RemoveAt(q, i) == SubSeq(q, 1, i - 1) \o SubSeq(q, i + 1, Len(q))

\* The reference exchange of one upload: the status responses InProgress,
\* InProgress, Success, each delivered before the next tick of the interval.
\* script holds the events of the exchange seen since an interval was started
\* with nothing else active, followed by "tick" when a further tick comes after
\* the whole exchange; it is Off when the run has left the exchange.
Exchange == <<"tick", "InProgress", "tick", "InProgress", "tick", "Success">>

Off == <<"off">>

Follow(event) ==
  IF script # Off /\ Len(script) < Len(Exchange) /\ Exchange[Len(script) + 1] = event
  THEN Append(script, event)
  ELSE IF script = Exchange /\ event = "tick" THEN Append(script, "tick")
  ELSE Off

\* clearInterval(this.interval)
clearInterval(h) == timers' = timers \ {h}

\* uploadModelToCarStatus up to its await: the status POST is sent.
uploadModelToCarStatus(InstanceId, cmd, caller) ==
  pendingStatus' = Append(pendingStatus,
                          [InstanceId |-> InstanceId, CommandId |-> cmd, caller |-> caller])

\* trigger={<Button positive circular icon='upload' />}, onOpen
OpenCarModal ==
  /\ ~unmounted
  /\ ~open /\ ~resultOpen
  /\ open' = TRUE
  /\ UNCHANGED <<resultOpen, result, CurrentInstanceId, CommandId, uploadStatus, count,
                 interval, timers, handles, pendingUploads, pendingStatus, script>>
  /\ UNCHANGED <<unmounted, unhandledRejection>>
  /\ UNCHANGED tkVars

\* "Select a Car" modal, onClose
CarModalOnClose ==
  /\ ~unmounted /\ open
  /\ open' = FALSE
  /\ UNCHANGED <<resultOpen, result, CurrentInstanceId, CommandId, uploadStatus, count,
                 interval, timers, handles, pendingUploads, pendingStatus, script>>
  /\ UNCHANGED <<unmounted, unhandledRejection>>
  /\ UNCHANGED tkVars

\* "Select a Car" modal, Close button
CarModalCloseButton ==
  /\ ~unmounted /\ open
  /\ open' = FALSE
  /\ result' = ""
  /\ UNCHANGED <<resultOpen, CurrentInstanceId, CommandId, uploadStatus, count,
                 interval, timers, handles, pendingUploads, pendingStatus, script>>
  /\ UNCHANGED <<unmounted, unhandledRejection>>
  /\ UNCHANGED tkVars

\* Upload button of a car row, and uploadModelToCar up to its await.
UploadButton(car) ==
  /\ ~unmounted /\ open
  /\ Len(pendingUploads) + handles < MaxUploads
  /\ result' = "Uploading..."
  /\ open' = FALSE
  /\ resultOpen' = TRUE
  /\ pendingUploads' = Append(pendingUploads, car)
  /\ script' = Off
  /\ UNCHANGED <<CurrentInstanceId, CommandId, uploadStatus, count, interval, timers,
                 handles, pendingStatus>>
  /\ UNCHANGED <<unmounted, unhandledRejection>>
  /\ UNCHANGED tkVars

\* uploadModelToCar after its await: the response is stored as the command id,
\* whatever it is.  setState of an unmounted component changes nothing; the
\* setInterval call is made all the same.
uploadModelToCar(car, response) ==
  /\ IF unmounted
     THEN UNCHANGED <<result, CommandId, CurrentInstanceId, uploadStatus>>
     ELSE /\ result' = response
          /\ CommandId' = response
          /\ CurrentInstanceId' = car
          /\ uploadStatus' = "InProgress"
  /\ interval' = handles + 1
  /\ timers' = timers \cup {handles + 1}
  /\ handles' = handles + 1

\* The upload POST is answered with a command id.
UploadResponse(i) ==
  /\ i \in 1..Len(pendingUploads)
  /\ uploadModelToCar(pendingUploads[i], CommandIdOf(handles + 1))
  /\ pendingUploads' = RemoveAt(pendingUploads, i)
  /\ script' = IF timers = {} /\ pendingStatus = << >> /\ Len(pendingUploads) = 1
                  /\ ~unmounted
               THEN << >> ELSE Off
  /\ UNCHANGED <<open, resultOpen, count, pendingStatus>>
  /\ UNCHANGED <<unmounted, unhandledRejection>>
  /\ UNCHANGED tkVars

\* The upload POST is answered, but with a body that holds no command id.
UploadResponseNoId(i) ==
  /\ i \in 1..Len(pendingUploads)
  /\ uploadModelToCar(pendingUploads[i], NoCommandId)
  /\ pendingUploads' = RemoveAt(pendingUploads, i)
  /\ script' = Off
  /\ UNCHANGED <<open, resultOpen, count, pendingStatus>>
  /\ UNCHANGED <<unmounted, unhandledRejection>>
  /\ UNCHANGED tkVars

\* The upload POST fails: the await throws, nothing after it runs, and the
\* promise uploadModelToCar returned to the onClick handler is rejected.
UploadError(i) ==
  /\ i \in 1..Len(pendingUploads)
  /\ pendingUploads' = RemoveAt(pendingUploads, i)
  /\ unhandledRejection' = TRUE
  /\ UNCHANGED <<open, resultOpen, result, CurrentInstanceId, CommandId, uploadStatus,
                 count, interval, timers, handles, pendingStatus, unmounted, script>>
  /\ UNCHANGED tkVars

\* A tick that gives up after MaxCount polls.
tick_withCeiling ==
  /\ count' = IF unmounted THEN count ELSE count + 1
  /\ uploadModelToCarStatus(CurrentInstanceId, CommandId, "tick")
  /\ IF uploadStatus # "InProgress" \/ count + 1 >= MaxCount
     THEN clearInterval(interval)
     ELSE UNCHANGED timers

\* this.tick, called by an active interval.
tick ==
  /\ count' = IF unmounted THEN count ELSE count + 1
  /\ uploadModelToCarStatus(CurrentInstanceId, CommandId, "tick")
  /\ IF uploadStatus # "InProgress"
     THEN clearInterval(interval)
     ELSE UNCHANGED timers

Tick(h) ==
  /\ h \in timers
  /\ count < MaxCount
  /\ Len(pendingStatus) < MaxPending
  /\ tick
  /\ script' = Follow("tick")
  /\ UNCHANGED <<open, resultOpen, result, CurrentInstanceId, CommandId, uploadStatus,
                 interval, handles, pendingUploads>>
  /\ UNCHANGED <<unmounted, unhandledRejection>>
  /\ UNCHANGED tkVars

\* uploadModelToCarStatus after its await.
StatusResponse(i, response) ==
  /\ i \in 1..Len(pendingStatus)
  /\ IF unmounted
     THEN UNCHANGED <<result, uploadStatus>>
     ELSE result' = response /\ uploadStatus' = response
  /\ pendingStatus' = RemoveAt(pendingStatus, i)
  /\ script' = Follow(response)
  /\ UNCHANGED <<open, resultOpen, CurrentInstanceId, CommandId, count, interval,
                 timers, handles, pendingUploads>>
  /\ UNCHANGED <<unmounted, unhandledRejection>>
  /\ UNCHANGED tkVars

\* The status POST fails: the await throws, no setState runs, and the promise
\* uploadModelToCarStatus returned to tick or to the Refresh onClick is rejected.
StatusError(i) ==
  /\ i \in 1..Len(pendingStatus)
  /\ pendingStatus' = RemoveAt(pendingStatus, i)
  /\ unhandledRejection' = TRUE
  /\ script' = Off
  /\ UNCHANGED <<open, resultOpen, result, CurrentInstanceId, CommandId, uploadStatus,
                 count, interval, timers, handles, pendingUploads, unmounted>>
  /\ UNCHANGED tkVars

\* "Upload Result" modal, onClose
ResultOnClose ==
  /\ ~unmounted /\ resultOpen
  /\ resultOpen' = FALSE
  /\ script' = Off
  /\ UNCHANGED <<open, result, CurrentInstanceId, CommandId, uploadStatus, count,
                 interval, timers, handles, pendingUploads, pendingStatus>>
  /\ UNCHANGED <<unmounted, unhandledRejection>>
  /\ UNCHANGED tkVars

\* "Upload Result" modal, Close button
ResultCloseButton ==
  /\ ~unmounted /\ resultOpen
  /\ resultOpen' = FALSE
  /\ result' = ""
  /\ clearInterval(interval)
  /\ script' = Off
  /\ UNCHANGED <<open, CurrentInstanceId, CommandId, uploadStatus, count, interval,
                 handles, pendingUploads, pendingStatus>>
  /\ UNCHANGED <<unmounted, unhandledRejection>>
  /\ UNCHANGED tkVars

\* componentWillUnmount
Unmount ==
  /\ ~unmounted
  /\ unmounted' = TRUE
  /\ clearInterval(interval)
  /\ script' = Off
  /\ UNCHANGED <<open, resultOpen, result, CurrentInstanceId, CommandId, uploadStatus,
                 count, interval, handles, pendingUploads, pendingStatus,
                 unhandledRejection>>
  /\ UNCHANGED tkVars

\* A Refresh that also re-arms the interval.
RefreshButton_restartsInterval ==
  /\ ~unmounted /\ resultOpen
  /\ Len(pendingStatus) < MaxPending
  /\ uploadModelToCarStatus(CurrentInstanceId, CommandId, "refresh")
  /\ timers' = timers \cup {interval}
  /\ script' = Off
  /\ UNCHANGED <<open, resultOpen, result, CurrentInstanceId, CommandId, uploadStatus,
                 count, interval, handles, pendingUploads>>
  /\ UNCHANGED <<unmounted, unhandledRejection>>
  /\ UNCHANGED tkVars

\* "Upload Result" modal, Refresh button
RefreshButton ==
  /\ ~unmounted /\ resultOpen
  /\ Len(pendingStatus) < MaxPending
  /\ uploadModelToCarStatus(CurrentInstanceId, CommandId, "refresh")
  /\ script' = Off
  /\ UNCHANGED <<open, resultOpen, result, CurrentInstanceId, CommandId, uploadStatus,
                 count, interval, timers, handles, pendingUploads>>
  /\ UNCHANGED <<unmounted, unhandledRejection>>
  /\ UNCHANGED tkVars

----------------------------------------------------------------------------
\* The state after the components are mounted.
Init ==
  /\ racerSelecorModalIsVisible = TRUE
  /\ endSessionModalIsVisible = FALSE
  /\ timerIsReset = FALSE
  /\ username = Undefined
  /\ laps = << >>
  /\ fastestLap = << >>
  /\ carResetCounter = 0
  /\ timeInMilliseconds = 0
  /\ lapTimerIsRunning = FALSE
  /\ timeLeft = RaceTime
  /\ renderError = "none"
  /\ trail = NoTrail
  /\ open = FALSE
  /\ resultOpen = FALSE
  /\ result = "Mounted"
  /\ CurrentInstanceId = ""
  /\ CommandId = ""
  /\ uploadStatus = ""
  /\ count = 0
  /\ interval = NoHandle
  /\ timers = {}
  /\ handles = 0
  /\ pendingUploads = << >>
  /\ pendingStatus = << >>
  /\ unmounted = FALSE
  /\ unhandledRejection = FALSE
  /\ script = Off

\* The Timekeeper page driven through its controls.
Next ==
  \/ \E u \in Racers : RacerSelected(u)
  \/ RacerSelectionDismissed
  \/ StartPauseButton
  \/ \E lapIsValid \in BOOLEAN : CaptureLapButton(lapIsValid)
  \/ CarResetButton
  \/ MinusOneButton
  \/ UndoButton
  \/ EndRaceButton
  \/ SubmitRace
  \/ AbandonRace
  \/ EndSessionDismissed
  \/ \E id \in 0..(MaxLaps - 1) : ToggleLap(id)
  \/ LapTimerTick
  \/ CountDownTick

Spec == Init /\ [][Next]_vars

\* The Timekeeper handlers called whatever the state of their controls.
NextDirect ==
  \/ Next
  \/ \E lapIsValid \in BOOLEAN : CaptureLapCall(lapIsValid)
  \/ CarResetCall
  \/ MinusOneCall
  \/ \E id \in 0..(MaxLaps - 1) : ToggleLapCall(id)
  \/ \E lapIsValid \in BOOLEAN, id \in 0..(MaxLaps - 1), captureFirst \in BOOLEAN :
       CaptureAndToggleCall(lapIsValid, id, captureFirst)

SpecDirect == Init /\ [][NextDirect]_vars

\* The upload poller: operator, interval timers and the remote API.
NextUpload ==
  \/ OpenCarModal
  \/ CarModalOnClose
  \/ CarModalCloseButton
  \/ \E car \in Cars : UploadButton(car)
  \/ \E i \in 1..MaxUploads : UploadResponse(i)
  \/ \E i \in 1..MaxUploads : UploadResponseNoId(i)
  \/ \E i \in 1..MaxUploads : UploadError(i)
  \/ \E h \in 1..MaxUploads : Tick(h)
  \/ \E i \in 1..MaxPending, response \in Statuses : StatusResponse(i, response)
  \/ \E i \in 1..MaxPending : StatusError(i)
  \/ ResultOnClose
  \/ ResultCloseButton
  \/ RefreshButton
  \/ Unmount

SpecUpload == Init /\ [][NextUpload]_vars

----------------------------------------------------------------------------
\* Properties of the Timekeeper.

IdsDense == \A i \in 1..Len(laps) : laps[i].id = i - 1

CaptureStep == \E lapIsValid \in BOOLEAN : CaptureLapButton(lapIsValid)

\* C1: whatever captures, DNFs, undos and validity toggles were performed,
\* laps[i].id = i for every index of laps (0-based), and every capture
\* appends exactly one lap, at the end, with the id of its position.
C1_LapIdsFollowCaptureOrder ==
  /\ []IdsDense
  /\ [][CaptureStep => /\ Len(laps') = Len(laps) + 1
                       /\ SubSeq(laps', 1, Len(laps)) = laps
                       /\ laps'[Len(laps')].id = Len(laps)]_vars

\* A capture has just appended the third lap of the session.
C1_Witness ==
  /\ trail.op = "capture" /\ trail.len = 2
  /\ Len(laps) = 3 /\ laps[3].id = 2

ValidIndexes == {i \in 1..Len(laps) : laps[i].isValid}

\* C2: fastestLap is empty when no lap is valid, and otherwise it is exactly
\* one lap of laps, valid, whose time is the least time of the valid laps.
C2_FastestLapIsFastestValid ==
  IF ValidIndexes = {}
  THEN fastestLap = << >>
  ELSE /\ Len(fastestLap) = 1
       /\ \E i \in ValidIndexes : laps[i] = fastestLap[1]
       /\ \A j \in ValidIndexes : fastestLap[1].time <= laps[j].time

\* Three laps: valid, invalid with a lower time, valid with a higher time;
\* the first one is the fastest lap.
C2_Witness ==
  /\ Len(laps) = 3
  /\ laps[1].isValid /\ ~laps[2].isValid /\ laps[3].isValid
  /\ laps[2].time < laps[1].time /\ laps[1].time < laps[3].time
  /\ fastestLap = <<laps[1]>>

\* C3: after a capture followed by Undo false finish (stopwatch ticks in
\* between allowed), laps has the length it had before the capture and the
\* stopwatch shows its value before the capture plus the time elapsed since.
C3_CaptureUndoRoundTrip ==
  trail.op = "undo" =>
    /\ Len(laps) = trail.len
    /\ timeInMilliseconds = trail.time + trail.elapsed

\* An undo of a capture taken with a running lap and an earlier lap recorded,
\* after the stopwatch has moved on.
C3_Witness ==
  /\ trail.op = "undo"
  /\ trail.len > 0 /\ trail.time > 0 /\ trail.elapsed > 0

\* C4: Undo false finish with no lap recorded changes nothing and raises
\* no error.
C4_UndoOnEmptyIsNoOp ==
  [][(laps = << >> /\ UndoButton) =>
       /\ laps' = << >>
       /\ timeInMilliseconds' = timeInMilliseconds
       /\ carResetCounter' = carResetCounter
       /\ renderError' = "none"]_vars

\* C5: while the session is not Racing, the capture handler (valid or DNF)
\* and the counter handlers leave laps, counter and stopwatch as they are.
C5_RejectedWhileNotRacing ==
  [][(~Racing /\ \/ \E lapIsValid \in BOOLEAN : CaptureLapCall(lapIsValid)
                 \/ CarResetCall
                 \/ MinusOneCall) =>
       UNCHANGED <<laps, carResetCounter, timeInMilliseconds, lapTimerIsRunning>>]_vars

FreshSession ==
  /\ username = Undefined
  /\ laps = << >>
  /\ carResetCounter = 0
  /\ ~lapTimerIsRunning
  /\ timeInMilliseconds = 0
  /\ racerSelecorModalIsVisible

\* C6: after End Session is confirmed by Submit or Abandon the session is
\* fresh: no racer, no laps, reset counter 0, stopwatch stopped at 0, racer
\* selection requested.
C6_EndSessionGivesFreshSession ==
  [][(SubmitRace \/ AbandonRace) => FreshSession']_vars

----------------------------------------------------------------------------
\* Properties of the upload poller.

\* C7: when the status responses InProgress, InProgress, Success arrive on
\* consecutive ticks, the interval issues three status queries and no fourth.
C7_ThreeQueriesThenStop == script # Append(Exchange, "tick")

\* C8: while the result view is dismissed, no tick issues a status query.
C8_NoTickAfterDismiss ==
  [][~resultOpen => \A h \in 1..MaxUploads : ~Tick(h)]_vars


TickRequests == {i \in 1..Len(pendingStatus) : pendingStatus[i].caller = "tick"}

\* The Close button of the result view has cancelled the poll loop: the view
\* is closed, the displayed result is cleared and no interval is active.
Cancelled ==
  /\ handles > 0
  /\ ~resultOpen
  /\ result = ""
  /\ timers = {}

\* C9: once the poll loop is cancelled, the response of a status request that
\* a tick had issued changes neither uploadStatus nor the displayed result.
C9_NoLateResponseAfterCancel ==
  [][(/\ Cancelled
      /\ \E i \in TickRequests, response \in Statuses : StatusResponse(i, response)) =>
       /\ uploadStatus' = uploadStatus
       /\ result' = result]_vars

\* C10: at most one status request issued by a tick awaits its response.
C10_OneTickRequestOutstanding == Cardinality(TickRequests) <= 1

\* C11: at most one interval timer is active, and an active timer is the one
\* this.interval refers to, the only one the Close button and unmount can clear.
C11_AtMostOneActiveTimer ==
  /\ Cardinality(timers) <= 1
  /\ timers \subseteq {interval}

SubmitFails ==
  \E i \in 1..MaxUploads : UploadError(i) \/ UploadResponseNoId(i)

\* C12: when the submit call errors or answers without a command id, the status
\* does not become InProgress and no interval timer is started.
C12_FailedSubmitStartsNoLoop ==
  [][SubmitFails => /\ uploadStatus' = uploadStatus
                    /\ timers' = timers
                    /\ interval' = interval]_vars

StatusQueryFails == \E i \in 1..MaxPending : StatusError(i)

\* C13: a status query that fails is handled where it fails and ends the
\* polling: the displayed status becomes Failed, which is the status that
\* makes tick clear the interval, and no promise is left rejected without a
\* handler.
C13_StatusErrorIsTerminal ==
  [][StatusQueryFails => /\ uploadStatus' = "Failed"
                         /\ ~unhandledRejection']_vars

RefreshRequest ==
  [InstanceId |-> CurrentInstanceId, CommandId |-> CommandId, caller |-> "refresh"]

RefreshRequests == {i \in 1..Len(pendingStatus) : pendingStatus[i].caller = "refresh"}

\* C14: a Refresh sends exactly one status query, for the current car and
\* command, whether or not an interval is active, and neither the click nor the
\* response to its query starts, restarts or duplicates an interval timer.
C14_RefreshIsOneQueryAndNoTimer ==
  /\ [][RefreshButton => /\ pendingStatus' = Append(pendingStatus, RefreshRequest)
                         /\ UNCHANGED <<timers, interval, handles, count>>]_vars
  /\ [][(\E i \in RefreshRequests, response \in Statuses : StatusResponse(i, response)) =>
          UNCHANGED <<timers, interval, handles, count>>]_vars

\* A Refresh was pressed after the loop had stopped, and the loop is still stopped.
C14_Witness ==
  /\ RefreshRequests # {}
  /\ handles > 0
  /\ uploadStatus = "Success"
  /\ timers = {}
  /\ resultOpen

\* C15: right after the fastest lap is toggled to invalid, fastestLap is the
\* valid lap with the lowest time among the valid laps that remain, or empty
\* when none remains; right after that lap is toggled back to valid, it is the
\* fastest lap again.
C15_InvalidatingFastestRecomputes ==
  /\ trail.op = "unfastest" =>
       /\ ~laps[trail.len + 1].isValid
       /\ IF ValidIndexes = {}
          THEN fastestLap = << >>
          ELSE /\ Len(fastestLap) = 1
               /\ \E i \in ValidIndexes : laps[i] = fastestLap[1]
               /\ \A j \in ValidIndexes : fastestLap[1].time <= laps[j].time
  /\ trail.op = "refastest" =>
       /\ laps[trail.len + 1].isValid
       /\ fastestLap = <<laps[trail.len + 1]>>

\* The fastest lap of several valid laps was invalidated, another lap took its
\* place, and it has just been toggled back.
C15_Witness ==
  /\ trail.op = "refastest"
  /\ Cardinality(ValidIndexes) >= 2

\* The only valid lap was invalidated: no fastest lap remains.
C15_WitnessNoneRemains ==
  /\ trail.op = "unfastest"
  /\ ValidIndexes = {}
  /\ Len(laps) >= 2

\* The countdown step that reaches zero: the race clock expires.
Expiry == CountDownTick /\ timeLeft = 1

EndSessionConfirmed == SubmitRace \/ AbandonRace

\* C16: the expiry of the race clock pauses the stopwatch and changes neither
\* the racer, nor the laps, nor the reset counter, nor the modals; the racer
\* of a session is only cleared by a confirmation in the End Session modal.
C16_ExpiryPausesAndKeepsSession ==
  /\ [][Expiry => /\ ~lapTimerIsRunning'
                  /\ UNCHANGED <<username, laps, fastestLap, carResetCounter,
                                 timeInMilliseconds, racerSelecorModalIsVisible,
                                 endSessionModalIsVisible>>]_vars
  /\ [][(username # Undefined /\ username' = Undefined) => EndSessionConfirmed]_vars

\* The race clock expired in a session with a racer, a captured lap and a car
\* reset counted: all of them are still there, the stopwatch is paused.
C16_Witness ==
  /\ timeLeft = 0
  /\ ~lapTimerIsRunning
  /\ username # Undefined
  /\ laps # << >>
  /\ carResetCounter > 0

\* C17: a Capture Lap (lapIsValid) or DNF (not lapIsValid) pressed while racing
\* appends exactly one lap: id = the former number of laps, time = the
\* stopwatch value, resets = the reset counter, crashes = 0, isValid =
\* lapIsValid; the earlier laps are unchanged, and afterwards the stopwatch
\* reads 0 and the reset counter is 0.
C17_CaptureRecordsTheLap ==
  [][\A lapIsValid \in BOOLEAN :
       (Racing /\ CaptureLapButton(lapIsValid)) =>
         /\ laps' = Append(laps, [id |-> Len(laps),
                                  time |-> timeInMilliseconds,
                                  resets |-> carResetCounter,
                                  crashes |-> 0,
                                  isValid |-> lapIsValid])
         /\ timeInMilliseconds' = 0
         /\ carResetCounter' = 0]_vars

\* A DNF has just been captured as the second lap, with time on the stopwatch
\* and a car reset counted.
C17_Witness ==
  /\ trail.op = "capture" /\ trail.elapsed = 0
  /\ Len(laps) = 2
  /\ laps[2].time > 0
  /\ laps[2].resets > 0
  /\ ~laps[2].isValid
  /\ timeInMilliseconds = 0
  /\ carResetCounter = 0

\* C18: the reset counter and the resets of every captured lap are never
\* negative; the -1 button takes one off a positive counter and leaves a
\* counter of 0 at 0, without an error.
C18_ResetCounterNeverNegative ==
  /\ carResetCounter >= 0
  /\ \A i \in 1..Len(laps) : laps[i].resets >= 0
  /\ trail.op = "minus" =>
       /\ carResetCounter = (IF trail.len = 0 THEN 0 ELSE trail.len - 1)
       /\ Mounted

\* The -1 button has just been pressed with the counter at 0.
C18_Witness ==
  /\ trail.op = "minus"
  /\ trail.len = 0
  /\ carResetCounter = 0

\* C19: the stopwatch only runs while a racer is selected.  Start/Resume without
\* a racer shows the racer selection again and leaves the stopwatch stopped;
\* dismissing the racer selection selects nobody and starts nothing; with a
\* racer selected the Start / Pause button toggles the stopwatch.
C19_RunningImpliesRacer ==
  /\ [](lapTimerIsRunning => username # Undefined)
  /\ [][StartPauseButton =>
          IF username = Undefined
          THEN /\ ~lapTimerIsRunning'
               /\ racerSelecorModalIsVisible'
               /\ username' = Undefined
          ELSE /\ lapTimerIsRunning' = ~lapTimerIsRunning
               /\ username' = username]_vars
  /\ [][(RacerSelectionDismissed /\ username = Undefined) =>
          /\ username' = Undefined
          /\ ~lapTimerIsRunning'
          /\ ~racerSelecorModalIsVisible']_vars

\* Start was pressed after the racer selection had been dismissed: the racer
\* selection is shown again and the stopwatch stands still.
C19_Witness ==
  /\ trail.op = "norider"
  /\ username = Undefined
  /\ racerSelecorModalIsVisible
  /\ ~lapTimerIsRunning

OperatorCancels == ResultCloseButton \/ Unmount

\* C20: while uploadStatus is InProgress, every tick of an active interval
\* issues one status query and leaves the interval active, whatever the number
\* of polls made before; an interval only stops being active when the operator
\* cancels or when a tick finds a status other than InProgress.
C20_LoopHasNoCeiling ==
  /\ [][\A h \in 1..MaxUploads :
          (Tick(h) /\ uploadStatus = "InProgress") =>
            /\ timers' = timers
            /\ Len(pendingStatus') = Len(pendingStatus) + 1]_vars
  /\ [][~(timers \subseteq timers') =>
          (OperatorCancels \/ uploadStatus # "InProgress")]_vars

\* The interval of the only upload is still active after MaxCount polls, all
\* of them made with the status InProgress, and the last query is on its way.
C20_Witness ==
  /\ count = MaxCount
  /\ handles = 1
  /\ interval \in timers
  /\ uploadStatus = "InProgress"
  /\ resultOpen /\ ~unmounted
  /\ \E i \in 1..Len(pendingStatus) : pendingStatus[i].caller = "tick"

\* A step of the race clock that pauses the stopwatch: onExpire was called.
ExpiryNotified == CountDownTick /\ lapTimerIsRunning /\ ~lapTimerIsRunning'

\* C21: the race clock calls onExpire only on the step that takes the
\* remaining time from above zero to zero, and the remaining time only goes up
\* again when a session reset re-arms the clock; so one race gets one expiry
\* notification, whatever is pressed after it.
C21_OneExpiryPerRace ==
  /\ [][ExpiryNotified => (timeLeft > 0 /\ timeLeft' = 0)]_vars
  /\ [][timeLeft = 0 => ~ExpiryNotified]_vars
  /\ [][timeLeft' > timeLeft => EndSessionConfirmed]_vars

\* The race clock has expired and the operator has pressed Start again: the
\* stopwatch runs with no time left on the race clock.
C21_Witness ==
  /\ timeLeft = 0
  /\ lapTimerIsRunning
  /\ username # Undefined

\* C22: toggling the validity of an existing lap flips isValid of that lap and
\* changes nothing else: not its id, time, resets or crashes, not another lap,
\* not the order or the number of laps, not the stopwatch, not the reset
\* counter; a second toggle of the same lap gives back the laps as they were.
C22_ToggleFlipsOnlyIsValid ==
  /\ [][\A id \in 0..(MaxLaps - 1) :
          ToggleLap(id) =>
            /\ Len(laps') = Len(laps)
            /\ \A i \in 1..Len(laps) :
                 laps'[i] = IF i = id + 1
                            THEN [id |-> laps[i].id, time |-> laps[i].time,
                                  resets |-> laps[i].resets, crashes |-> laps[i].crashes,
                                  isValid |-> ~laps[i].isValid]
                            ELSE laps[i]
            /\ UNCHANGED <<timeInMilliseconds, carResetCounter, lapTimerIsRunning,
                           username>>]_vars
  /\ [](trail.op = "refastest" => laps = trail.before)

\* The second of three laps has been toggled to invalid and back.
C22_Witness ==
  /\ trail.op = "refastest"
  /\ trail.len = 1
  /\ Len(laps) = 3
  /\ laps = trail.before

CompleteLap(o) == DOMAIN o = {"id", "time", "resets", "crashes", "isValid"}

\* C23: a validity toggle requested for an id that is not the index of a lap
\* leaves laps as it is; every entry of laps stays a complete lap record whose
\* id is its index.
C23_StaleToggleChangesNothing ==
  /\ [][(\E id \in 0..(MaxLaps - 1) : ToggleLapCall(id)) => laps' = laps]_vars
  /\ [](\A i \in 1..Len(laps) : CompleteLap(laps[i]) /\ laps[i].id = i - 1)

TerminalStatus == uploadStatus \in Statuses \ {"InProgress"}

\* C24: once the status shown is a status other than InProgress, the response
\* to a status query that a tick issued does not set it back to InProgress.
C24_TerminalStatusIsFrozen ==
  [][(/\ TerminalStatus
      /\ \E i \in TickRequests, response \in Statuses : StatusResponse(i, response)) =>
       uploadStatus' # "InProgress"]_vars

\* A capture step.  With time on the stopwatch, a capture handled together
\* with a toggle cannot be taken for a toggle alone, which leaves the time.
CaptureAccepted ==
  \E lapIsValid \in BOOLEAN :
    \/ CaptureLapButton(lapIsValid)
    \/ /\ timeInMilliseconds > 0
       /\ \E id \in 0..(MaxLaps - 1), captureFirst \in BOOLEAN :
            CaptureAndToggleCall(lapIsValid, id, captureFirst)

\* C25: every capture made while racing leaves laps one lap longer, also when
\* a validity toggle is handled from the same render as the capture; and laps
\* only gets shorter by an undo or by an End Session confirmation.
C25_NoCaptureLost ==
  /\ [][CaptureAccepted => Len(laps') = Len(laps) + 1]_vars
  /\ [][Len(laps') < Len(laps) => (UndoButton \/ EndSessionConfirmed)]_vars

\* C26: the undo leaves the reset counter as it is; after a capture and its
\* undo the counter is still the 0 the capture left, whatever car resets the
\* removed lap had recorded.
C26_UndoLeavesCounter ==
  /\ [][UndoButton => carResetCounter' = carResetCounter]_vars
  /\ [](trail.op = "undo" => carResetCounter = 0)

\* A lap captured with a car reset counted has just been undone.
C26_Witness ==
  /\ trail.op = "undo"
  /\ trail.resets > 0
  /\ Len(laps) = trail.len
  /\ carResetCounter = 0

\* The race clock has run out, the session has not been ended.
Expired == timeLeft = 0 /\ username # Undefined

\* C27: the controller keeps no memory of the expiry.  With the race clock run
\* out and the stopwatch paused, Start / Resume starts the stopwatch again and
\* keeps the racer and the laps; a capture made then adds a lap to the laps of
\* the same session.
C27_ExpiryIsNotLatched ==
  /\ [][(Expired /\ ~lapTimerIsRunning /\ StartPauseButton) =>
          /\ lapTimerIsRunning'
          /\ UNCHANGED <<username, laps, carResetCounter, timeInMilliseconds>>]_vars
  /\ [][(Expired /\ \E lapIsValid \in BOOLEAN : CaptureLapButton(lapIsValid)) =>
          /\ Len(laps') = Len(laps) + 1
          /\ SubSeq(laps', 1, Len(laps)) = laps
          /\ username' = username]_vars

\* A second lap has just been captured after the race clock ran out.
C27_Witness ==
  /\ Expired
  /\ trail.op = "capture"
  /\ Len(laps) = 2
  /\ lapTimerIsRunning

====
